---- MODULE Spec2Model ----
(***************************************************************************)
(* Diff_PDF: a two-slot PDF comparison tool.  The engine (PDFEngine) holds *)
(* the two opened documents and the cached diff rectangles; the window     *)
(* (DiffApp) holds the page position and drives the engine from its event  *)
(* handlers.  The repository ships the window twice: src/ui/main_window.py *)
(* (started by src/main.py) and the single-file src/diff_pdf.py.  The      *)
(* engine code is the same in both; the handlers differ and are modelled   *)
(* per copy, selected by the variable app.                                 *)
(***************************************************************************)
EXTENDS Integers, Sequences, FiniteSets, TLC

VARIABLES
    fs,           \* the files on disk: path -> Document, or Corrupt
    app,          \* which copy of the window runs: "main_window" or "diff_pdf"
    docs,         \* PDFEngine.docs: slot -> Document or None
    paths,        \* PDFEngine.paths: slot -> path ("" when never set)
    diff_boxes,   \* PDFEngine.diff_boxes: sequence of <<x, y, w, h>>
    curr_page,    \* DiffApp.curr_page
    total_pages,  \* DiffApp.total_pages
    mode,         \* combo_mode.currentIndex(): 0 visual, 1 text
    opacity,      \* opacity_spin.value()
    chk_hl,       \* slot -> chk_hl1 / chk_hl2 isChecked()
    scale,        \* DiffApp.scale, in percent
    timer,        \* render_timer is running
    lbl_page,     \* lbl_page text as <<shown page, shown total>>
    btn_compare,  \* diff_pdf.py: btn_compare.isEnabled()
    view,         \* slot -> what view1 / view2 displays
    printed,      \* the last line written to stdout
    crashed,      \* an exception escaped a handler
    pc,           \* where the GUI thread is: "idle" in the event loop of
                  \* app.exec(), "dialog" in the message box _load_file opens
                  \* before it refreshes, "compare" inside compare_visual
    todo,         \* inside compare_visual: the rectangles yet to be appended
    stepwise      \* the grain of the run: FALSE, a handler is one step; TRUE,
                  \* compare_visual's reset and each append are steps of their own

vars == <<fs, app, docs, paths, diff_boxes, curr_page, total_pages, mode,
          opacity, chk_hl, scale, timer, lbl_page, btn_compare, view,
          printed, crashed, pc, todo, stepwise>>

\* Python's None, and a file fitz.open cannot open; records, as the values
\* they are compared with are.
None == [none |-> TRUE]
Corrupt == [corrupt |-> TRUE]
Slots == {1, 2}
Other(slot) == 3 - slot

Abs(n) == IF n < 0 THEN -n ELSE n
Min(a, b) == IF a < b THEN a ELSE b
Max(a, b) == IF a > b THEN a ELSE b
SetMax(S) == CHOOSE m \in S : \A n \in S : n <= m
SeqToSet(s) == {s[i] : i \in 1..Len(s)}

(***************************************************************************)
(* Engine constants                                                        *)
(***************************************************************************)
grid_size == 5
Threshold == 20

(***************************************************************************)
(* Pixmaps.  A pixmap is [width, height, samples]; samples is the row-major*)
(* sequence of RGB triples (pix.samples, three bytes per pixel).           *)
(***************************************************************************)
Pixel(pix, x, y) == pix.samples[y * pix.width + x + 1]

\* Faulty variant of ChannelDiff: ImageChops.subtract, a - b clipped at 0.
ChannelSubtract(a, b) == Max(a - b, 0)

\* ImageChops.difference, one channel: abs(a - b).
ChannelDiff(a, b) == Abs(a - b)

\* ImageChops.difference(img1, img2) on two RGB images of the same size.
Difference(s1, s2) ==
    [i \in 1..Len(s1) |-> <<ChannelDiff(s1[i][1], s2[i][1]),
                            ChannelDiff(s1[i][2], s2[i][2]),
                            ChannelDiff(s1[i][3], s2[i][3])>>]

\* diff.getbbox() is None: no pixel has a non-zero band.
NoBBox(diff) == \A i \in 1..Len(diff) : diff[i] = <<0, 0, 0>>

\* diff.convert("L"), one pixel: ITU-R 601-2 luma in 16-bit fixed point,
\* rounded, the result an 8-bit value.
ConvertL(px) == (px[1] * 19595 + px[2] * 38470 + px[3] * 7471 + 32768) \div 65536

\* np.pad(diff_arr, ((0, pad_h), (0, pad_w)), mode='constant'): the value
\* written into the padding.
PadValue == 0

\* pad_h / pad_w: (grid - n % grid) % grid
PadLen(n, grid) == (grid - (n % grid)) % grid

\* Faulty variants of Exceeds: block_max >= 20, and block_max < 20.
ExceedsOrEquals(block_max, threshold) == block_max >= threshold
FallsBelow(block_max, threshold) == block_max < threshold

\* block_max > 20
Exceeds(block_max, threshold) == block_max > threshold

\* The rectangle appended for block (y_idx, x_idx).
Box(x_idx, y_idx, grid) == <<x_idx * grid, y_idx * grid, grid, grid>>

\* Lines 54-72 of compare_visual: the rectangles appended for the difference
\* image diff of width w and height h, with the grid size and the literal 20
\* as parameters.
GridBoxes(diff, w, h, grid, threshold) ==
    LET new_h == h + PadLen(h, grid)
        new_w == w + PadLen(w, grid)
        \* diff_arr after convert("L") and np.pad, flattened row-major
        diff_arr == [k \in 0..(new_h * new_w - 1) |->
                        LET y == k \div new_w
                            x == k % new_w
                        IN  IF y < h /\ x < w
                            THEN ConvertL(diff[y * w + x + 1])
                            ELSE PadValue]
        nby == new_h \div grid
        nbx == new_w \div grid
        \* diff_arr.reshape(nby, grid, nbx, grid)[by, iy, bx, ix]
        blocks(by, iy, bx, ix) == diff_arr[((by * grid + iy) * nbx + bx) * grid + ix]
        \* blocks.max(axis=(1, 3))
        block_max == [c \in (0..(nby - 1)) \X (0..(nbx - 1)) |->
                        SetMax({blocks(c[1], iy, c[2], ix) :
                                   iy \in 0..(grid - 1), ix \in 0..(grid - 1)})]
        \* np.where: the indices in row-major order
        cells == [k \in 1..(nby * nbx) |-> <<(k - 1) \div nbx, (k - 1) % nbx>>]
        hot == SelectSeq(cells, LAMBDA c : Exceeds(block_max[c], threshold))
        kept == SelectSeq(hot, LAMBDA c : c[2] * grid < w /\ c[1] * grid < h)
    IN  [k \in 1..Len(kept) |-> Box(kept[k][2], kept[k][1], grid)]

\* Lines 44-72 of compare_visual as a function of the two rendered pages:
\* the rectangles found, none when the dimensions differ or no pixel does.
Regions(pix1, pix2, grid, threshold) ==
    IF <<pix1.width, pix1.height>> # <<pix2.width, pix2.height>> THEN <<>>
    ELSE LET diff == Difference(pix1.samples, pix2.samples)
         IN  IF NoBBox(diff) THEN <<>>
             ELSE GridBoxes(diff, pix1.width, pix1.height, grid, threshold)

(***************************************************************************)
(* Text comparison: difflib.SequenceMatcher(None, t1, t2).ratio().  Texts  *)
(* are sequences of characters; the indices below are difflib's 0-based    *)
(* ones, a[i] of the code being a[i + 1] here.                             *)
(***************************************************************************)
\* SequenceMatcher(isjunk=None, a, b, autojunk=True): the default the call
\* at compare_text leaves in force.
Autojunk == TRUE

\* __chain_b: with autojunk, in a b of at least 200 elements every element
\* occurring more than len(b) // 100 + 1 times is "popular" and is removed
\* from b2j, the index find_longest_match starts its matches from.
Popular(b, autojunk) ==
    LET n == Len(b)
        ntest == n \div 100 + 1
    IN  IF autojunk /\ n >= 200
        THEN {elt \in SeqToSet(b) :
                 Cardinality({j \in 1..n : b[j] = elt}) > ntest}
        ELSE {}

\* One row of the main loop of find_longest_match, for a[i]: acc holds
\* j2len, the previous row (n |-> the length of the match ending at
\* (i - 1, blo + n - 1), 0 where the code stores nothing), and best, the
\* triple <<besti, bestj, bestsize>> so far.  A row updates best at the
\* first j whose k is greater than every k seen before.
ScanRow(a, b, popular, i, blo, bhi, acc) ==
    IF a[i + 1] \in popular \/ \A n \in 1..(bhi - blo) : b[blo + n] # a[i + 1]
    THEN \* b2j.get(a[i], nothing) yields no j in [blo, bhi): an empty row
         [j2len |-> [n \in 1..(bhi - blo) |-> 0], best |-> acc.best]
    ELSE
        LET newj2len == <<>> \o [n \in 1..(bhi - blo) |->
                            LET j == blo + n - 1
                            IN  IF b[j + 1] = a[i + 1]
                                THEN (IF n > 1 THEN acc.j2len[n - 1] ELSE 0) + 1
                                ELSE 0]
            rowmax == SetMax(SeqToSet(newj2len))
            jfirst == blo - 1 + CHOOSE n \in 1..(bhi - blo) :
                         /\ newj2len[n] = rowmax
                         /\ \A n2 \in 1..(n - 1) : newj2len[n2] < rowmax
        IN  [j2len |-> newj2len,
             best |-> IF rowmax > acc.best[3]
                      THEN <<i - rowmax + 1, jfirst - rowmax + 1, rowmax>>
                      ELSE acc.best]

\* for i in range(lo, hi): the rows in order, the later half run on the
\* result of the earlier half.
RECURSIVE ScanRows(_, _, _, _, _, _, _, _)
ScanRows(a, b, popular, lo, hi, blo, bhi, acc) ==
    IF lo >= hi THEN acc
    ELSE IF hi = lo + 1 THEN ScanRow(a, b, popular, lo, blo, bhi, acc)
    ELSE LET mid == (lo + hi) \div 2
             earlier == ScanRows(a, b, popular, lo, mid, blo, bhi, acc)
         IN  \* the test only makes the earlier half's result be computed
             \* before the later half starts; bestsize is never negative
             IF earlier.best[3] >= 0
             THEN ScanRows(a, b, popular, mid, hi, blo, bhi, earlier)
             ELSE earlier

\* while besti > alo and bestj > blo and a[besti-1] == b[bestj-1]: the
\* number of elements the match grows by at its front (bjunk is empty, so
\* the two loops on junk elements add nothing).
ExtendBack(a, b, besti, bestj, alo, blo) ==
    LET lim == Min(besti - alo, bestj - blo)
        same(t) == a[besti - t + 1] = b[bestj - t + 1]
    IN  CHOOSE m \in 0..lim :
            /\ \A t \in 1..m : same(t)
            /\ m = lim \/ ~same(m + 1)

\* while besti+bestsize < ahi and bestj+bestsize < bhi and
\* a[besti+bestsize] == b[bestj+bestsize]: growth at the end; iend, jend are
\* besti + bestsize and bestj + bestsize.
ExtendFwd(a, b, iend, jend, ahi, bhi) ==
    LET lim == Min(ahi - iend, bhi - jend)
        same(t) == a[iend + t] = b[jend + t]
    IN  CHOOSE m \in 0..lim :
            /\ \A t \in 1..m : same(t)
            /\ m = lim \/ ~same(m + 1)

\* The end of find_longest_match: best, the triple the main loop leaves,
\* grown by back elements at its front and by those the second loop adds at
\* its end, which starts at besti + bestsize whatever the front gained.
Extended(a, b, best, back, ahi, bhi) ==
    <<best[1] - back, best[2] - back,
      best[3] + back + ExtendFwd(a, b, best[1] + best[3], best[2] + best[3],
                                 ahi, bhi)>>

\* The main loop of find_longest_match has left best.
AfterScan(a, b, best, alo, ahi, blo, bhi) ==
    Extended(a, b, best, ExtendBack(a, b, best[1], best[2], alo, blo), ahi, bhi)

\* find_longest_match(alo, ahi, blo, bhi) -> <<i, j, k>>
find_longest_match(a, b, popular, alo, ahi, blo, bhi) ==
    AfterScan(a, b,
              ScanRows(a, b, popular, alo, ahi, blo, bhi,
                       [j2len |-> [n \in 1..(bhi - blo) |-> 0],
                        best |-> <<alo, blo, 0>>]).best,
              alo, ahi, blo, bhi)

\* get_matching_blocks, summed: the total size of the blocks found in
\* a[alo:ahi], b[blo:bhi].  MatchedAround is the step for the longest match
\* x = <<i, j, k>> of the range: k, and the blocks to its left and right.
RECURSIVE MatchedSize(_, _, _, _, _, _, _)
RECURSIVE MatchedAround(_, _, _, _, _, _, _, _)
MatchedAround(a, b, popular, alo, ahi, blo, bhi, x) ==
    IF x[3] = 0 THEN 0
    ELSE x[3] + (IF alo < x[1] /\ blo < x[2]
                 THEN MatchedSize(a, b, popular, alo, x[1], blo, x[2]) ELSE 0)
              + (IF x[1] + x[3] < ahi /\ x[2] + x[3] < bhi
                 THEN MatchedSize(a, b, popular, x[1] + x[3], ahi, x[2] + x[3], bhi)
                 ELSE 0)

MatchedSize(a, b, popular, alo, ahi, blo, bhi) ==
    MatchedAround(a, b, popular, alo, ahi, blo, bhi,
                  find_longest_match(a, b, popular, alo, ahi, blo, bhi))

\* SequenceMatcher.ratio(): matches and length, which _calculate_ratio turns
\* into 2.0 * matches / length, or 1.0 when length is 0.  The ratio is kept
\* as the pair <<numerator, denominator>>.
MatcherRatio(a, b, autojunk) ==
    LET matches == MatchedSize(a, b, Popular(b, autojunk), 0, Len(a), 0, Len(b))
        length == Len(a) + Len(b)
    IN  IF length # 0 THEN <<2 * matches, length>> ELSE <<1, 1>>

\* Faulty variant of TextRatio: SequenceMatcher.quick_ratio(), which counts
\* the characters the two strings share whatever their order.
QuickRatio(t1, t2) ==
    LET count(t, ch) == Cardinality({i \in 1..Len(t) : t[i] = ch})
        shared == {p \in (SeqToSet(t1) \cap SeqToSet(t2)) \X (1..Len(t1)) :
                      p[2] <= Min(count(t1, p[1]), count(t2, p[1]))}
        length == Len(t1) + Len(t2)
    IN  IF length # 0 THEN <<2 * Cardinality(shared), length>> ELSE <<1, 1>>

\* ratio = SequenceMatcher(None, t1, t2).ratio()
TextRatio(t1, t2) == MatcherRatio(t1, t2, Autojunk)

\* f"{ratio * 100:.1f}": the tenths of a percent the text can show.  The
\* nearest tenth; when ratio * 100 lies exactly halfway between two tenths
\* the float product decides, and both neighbours are allowed.
FormatTenths(ratio) ==
    LET n == 1000 * ratio[1]
        d == ratio[2]
        fl == n \div d
        rem2 == 2 * (n % d)
    IN  IF rem2 < d THEN {fl} ELSE IF rem2 > d THEN {fl + 1} ELSE {fl, fl + 1}

(***************************************************************************)
(* Documents.  A Document is [name, pages]; a page is [pixmap, text]: the  *)
(* pixmap get_pixmap(Matrix(1, 1)) renders and the string get_text("text") *)
(* extracts.  Page numbers are 0-based as in the code.                     *)
(***************************************************************************)
PageCount(doc) == Len(doc.pages)                    \* len(doc)
PageOf(doc, page_num) == doc.pages[page_num + 1]    \* doc[page_num]

\* `not doc`: None, or a document of no pages (len(doc) == 0).
Falsy(doc) == doc = None \/ PageCount(doc) = 0

\* fitz.open(path) on a file that opens.
Open(files, path) == files[path]

(***************************************************************************)
(* PDFEngine                                                               *)
(***************************************************************************)
\* Faulty variant of load_doc: the list is built anew around the document
\* opened, self.docs = [None, None, None] before the assignment.
load_doc_fresh_list(d, files, slot, path) ==
    [s \in Slots |-> IF s = slot THEN Open(files, path) ELSE None]

\* load_doc: the docs after self.docs[slot] = fitz.open(path).
load_doc(d, files, slot, path) == [d EXCEPT ![slot] = Open(files, path)]

is_ready(d) == d[1] # None /\ d[2] # None

get_page_size(d, slot, page_num) ==
    LET doc == d[slot]
    IN  IF Falsy(doc) \/ page_num >= PageCount(doc) THEN <<0, 0>>
        ELSE <<PageOf(doc, page_num).pixmap.width,
               PageOf(doc, page_num).pixmap.height>>

\* Faulty variant of compare_visual: self.diff_boxes = [] comes after the
\* size check instead of first, so the returns before it keep the list.
compare_visual_reset_after_size_check(d, boxes, page_num) ==
    LET cleared == <<>>
        doc1 == d[1]
        doc2 == d[2]
    IN  IF Falsy(doc1) \/ Falsy(doc2) THEN boxes
        ELSE IF page_num >= PageCount(doc1) \/ page_num >= PageCount(doc2)
        THEN boxes
        ELSE LET pix1 == PageOf(doc1, page_num).pixmap
                 pix2 == PageOf(doc2, page_num).pixmap
             IN  IF <<pix1.width, pix1.height>> # <<pix2.width, pix2.height>>
                 THEN boxes
                 ELSE LET diff == Difference(pix1.samples, pix2.samples)
                      IN  IF NoBBox(diff) THEN cleared
                          ELSE cleared \o GridBoxes(diff, pix1.width, pix1.height,
                                                    grid_size, Threshold)

\* Faulty variant of compare_visual: self.diff_boxes = [] comes only before
\* the grid stage, after the return for identical images.
compare_visual_reset_before_grid(d, boxes, page_num) ==
    LET cleared == <<>>
        doc1 == d[1]
        doc2 == d[2]
    IN  IF Falsy(doc1) \/ Falsy(doc2) THEN cleared
        ELSE IF page_num >= PageCount(doc1) \/ page_num >= PageCount(doc2)
        THEN cleared
        ELSE LET pix1 == PageOf(doc1, page_num).pixmap
                 pix2 == PageOf(doc2, page_num).pixmap
             IN  IF <<pix1.width, pix1.height>> # <<pix2.width, pix2.height>>
                 THEN cleared
                 ELSE LET diff == Difference(pix1.samples, pix2.samples)
                      IN  IF NoBBox(diff) THEN boxes
                          ELSE cleared \o GridBoxes(diff, pix1.width, pix1.height,
                                                    grid_size, Threshold)

\* compare_visual: the diff_boxes it leaves, given the list it finds.  The
\* list is cleared first, so every early return leaves it empty.
compare_visual(d, boxes, page_num) ==
    LET cleared == <<>>
        doc1 == d[1]
        doc2 == d[2]
    IN  IF Falsy(doc1) \/ Falsy(doc2) THEN cleared
        ELSE IF page_num >= PageCount(doc1) \/ page_num >= PageCount(doc2)
        THEN cleared
        ELSE LET pix1 == PageOf(doc1, page_num).pixmap
                 pix2 == PageOf(doc2, page_num).pixmap
             IN  IF <<pix1.width, pix1.height>> # <<pix2.width, pix2.height>>
                 THEN cleared
                 ELSE LET diff == Difference(pix1.samples, pix2.samples)
                      IN  IF NoBBox(diff) THEN cleared
                          ELSE cleared \o GridBoxes(diff, pix1.width, pix1.height,
                                                    grid_size, Threshold)

\* compare_text: the strings it can return, or the exception len(None)
\* raises when the slot the condition reaches is unset.
compare_text(d, page_num) ==
    IF d[1] = None THEN {[kind |-> "TypeError"]}
    ELSE IF page_num >= PageCount(d[1]) THEN {[kind |-> "Page Range Error"]}
    ELSE IF d[2] = None THEN {[kind |-> "TypeError"]}
    ELSE IF page_num >= PageCount(d[2]) THEN {[kind |-> "Page Range Error"]}
    ELSE {[kind |-> "Match", tenths |-> t] :
             t \in FormatTenths(TextRatio(PageOf(d[1], page_num).text,
                                          PageOf(d[2], page_num).text))}

\* int(opacity * 2.55) in double arithmetic: the floor of opacity * 255 / 100
\* for the spin box's 0..99, and 254 for 100 (100 * 2.55 is
\* 254.99999999999997).
OverlayAlpha(op) == IF op = 100 THEN 254 ELSE (op * 255) \div 100

\* Faulty variant of get_pixmap: `and opacity > 0` is missing from the
\* condition of the overlay.
get_pixmap_overlay_at_zero(d, boxes, slot, page_num, sc, op, show_diff) ==
    LET doc == d[slot]
        painted == show_diff /\ boxes # <<>>
    IN  IF Falsy(doc) \/ page_num >= PageCount(doc) THEN None
        ELSE [doc |-> doc.name, page |-> page_num, scale |-> sc,
              alpha |-> IF painted THEN OverlayAlpha(op) ELSE 0,
              rects |-> IF painted
                        THEN [k \in 1..Len(boxes) |->
                                 <<boxes[k][1] * sc, boxes[k][2] * sc,
                                   boxes[k][3] * sc, boxes[k][4] * sc>>]
                        ELSE <<>>]

\* get_pixmap: None, or the image built: the page of the document at the
\* scale, and the overlay painted on it (alpha 0 and no rectangles when none
\* is painted).  Rectangle coordinates are in hundredths of a pixel, the
\* scale being in percent.
get_pixmap(d, boxes, slot, page_num, sc, op, show_diff) ==
    LET doc == d[slot]
        painted == show_diff /\ boxes # <<>> /\ op > 0
    IN  IF Falsy(doc) \/ page_num >= PageCount(doc) THEN None
        ELSE [doc |-> doc.name, page |-> page_num, scale |-> sc,
              alpha |-> IF painted THEN OverlayAlpha(op) ELSE 0,
              rects |-> IF painted
                        THEN [k \in 1..Len(boxes) |->
                                 <<boxes[k][1] * sc, boxes[k][2] * sc,
                                   boxes[k][3] * sc, boxes[k][4] * sc>>]
                        ELSE <<>>]

(***************************************************************************)
(* DiffApp                                                                 *)
(***************************************************************************)
\* The part of the state _refresh_comparison and what it calls can write.
Cur == [diff_boxes |-> diff_boxes, lbl_page |-> lbl_page, view |-> view,
        printed |-> printed, crashed |-> crashed]

\* The state r a refresh of the documents d in mode md leaves is taken over:
\* at once, or, in a stepwise run that reaches compare_visual, up to the
\* reset of diff_boxes at its first line, the rest being left to AppendBox
\* and RenderAfterCompare.
Apply(r, d, md) ==
    IF stepwise /\ is_ready(d) /\ md = 0
    THEN /\ lbl_page' = r.lbl_page
         /\ diff_boxes' = <<>>
         /\ todo' = r.diff_boxes
         /\ pc' = "compare"
         /\ UNCHANGED <<view, printed, crashed>>
    ELSE /\ diff_boxes' = r.diff_boxes
         /\ lbl_page' = r.lbl_page
         /\ view' = r.view
         /\ printed' = r.printed
         /\ crashed' = r.crashed
         /\ pc' = "idle"
         /\ todo' = <<>>

\* _update_render (btn_fit unchecked): the views afterwards.  diff_pdf.py
\* returns at once unless both documents are loaded; main_window.py renders
\* whatever is loaded.  A view keeps its pixmap when get_pixmap gives None.
update_render(d, boxes, page, sc, op, hl, md, vw) ==
    IF app = "diff_pdf" /\ ~is_ready(d) THEN vw
    ELSE LET is_visual == md = 0
             p(slot) == get_pixmap(d, boxes, slot, page, sc, op,
                                   is_visual /\ hl[slot])
         IN  [slot \in Slots |-> IF p(slot) # None THEN p(slot) ELSE vw[slot]]

\* Faulty variant of refresh_comparison: the is_ready guard is missing.
refresh_comparison_unguarded(d, st, page, total, md) ==
    LET lbl == <<page + 1, total>>
    IN  IF md = 0
        THEN LET boxes == compare_visual(d, st.diff_boxes, page)
             IN  {[st EXCEPT !.diff_boxes = boxes, !.lbl_page = lbl,
                             !.view = update_render(d, boxes, page, scale,
                                          opacity, chk_hl, md, st.view)]}
        ELSE {IF msg.kind = "TypeError"
              THEN [st EXCEPT !.lbl_page = lbl, !.crashed = TRUE]
              ELSE [st EXCEPT !.lbl_page = lbl, !.printed = msg,
                              !.view = update_render(d, st.diff_boxes, page,
                                           scale, opacity, chk_hl, md, st.view)]
              : msg \in compare_text(d, page)}

\* _refresh_comparison with the engine holding d, the page index page, the
\* total total and the combo index md: the states it can leave (of the
\* shape of Cur), starting from st.
refresh_comparison(d, st, page, total, md) ==
    IF ~is_ready(d) THEN {st}
    ELSE
        LET lbl == <<page + 1, total>>
        IN  IF md = 0
            THEN LET boxes == compare_visual(d, st.diff_boxes, page)
                 IN  {[st EXCEPT !.diff_boxes = boxes, !.lbl_page = lbl,
                                 !.view = update_render(d, boxes, page, scale,
                                              opacity, chk_hl, md, st.view)]}
            ELSE {IF msg.kind = "TypeError"
                  THEN [st EXCEPT !.lbl_page = lbl, !.crashed = TRUE]
                  ELSE [st EXCEPT !.lbl_page = lbl, !.printed = msg,
                                  !.view = update_render(d, st.diff_boxes, page,
                                               scale, opacity, chk_hl, md, st.view)]
                  : msg \in compare_text(d, page)}

\* len(self.engine.docs[slot]) if self.engine.docs[slot] else 0
DocLen(d, slot) == IF Falsy(d[slot]) THEN 0 ELSE PageCount(d[slot])

\* Faulty variant of the event delivery: events are delivered while
\* compare_visual runs too, as they would be with the comparison on a
\* worker thread or a processEvents() call in its loop.
EventLoopRuns_during_compare(at) == at \in {"idle", "dialog", "compare"}

\* The event loop runs and delivers timer events: in app.exec(), and in the
\* loop of its own a modal message box runs.  No handler calls
\* processEvents and there is no second thread, so nothing is delivered
\* while compare_visual runs.
EventLoopRuns(at) == at \in {"idle", "dialog"}

\* User input reaches the window: not while a modal message box is open.
AcceptsInput(at) == at = "idle"

\* _check_duplicate_files shows its QMessageBox.warning: both paths set and
\* equal, or files of equal size and content.
check_duplicate_files(files, p) ==
    /\ p[1] # "" /\ p[2] # ""
    /\ \/ p[1] = p[2]
       \/ /\ files[p[1]] # Corrupt /\ files[p[2]] # Corrupt
          /\ files[p[1]].pages = files[p[2]].pages

\* _load_file(slot, path) when fitz.open(path) succeeds.  In main_window.py
\* _check_duplicate_files comes before the refresh; when it opens its
\* message box the handler stays there until the box is closed.
LoadFile(slot, path) ==
    /\ ~crashed
    /\ AcceptsInput(pc)
    /\ fs[path] # Corrupt
    /\ paths' = [paths EXCEPT ![slot] = path]
    /\ docs' = load_doc(docs, fs, slot, path)
    /\ IF is_ready(docs')
       THEN LET total == Min(PageCount(docs'[1]), PageCount(docs'[2]))
            IN  /\ total_pages' = total
                /\ curr_page' = 0
                /\ btn_compare' = (app = "diff_pdf" \/ btn_compare)
                /\ IF app = "main_window" /\ check_duplicate_files(fs, paths')
                   THEN /\ pc' = "dialog"
                        /\ UNCHANGED <<diff_boxes, lbl_page, view, printed,
                                       crashed, todo>>
                   ELSE \E r \in refresh_comparison(docs', Cur, 0, total, mode) :
                            Apply(r, docs', mode)
       ELSE IF app = "main_window"
       THEN LET total == Max(DocLen(docs', 1), DocLen(docs', 2))
            IN  /\ total_pages' = total
                /\ curr_page' = 0
                /\ lbl_page' = <<1, total>>
                /\ view' = update_render(docs', diff_boxes, 0, scale, opacity,
                                         chk_hl, mode, view)
                /\ UNCHANGED <<diff_boxes, btn_compare, printed, crashed, pc, todo>>
       ELSE UNCHANGED <<total_pages, curr_page, lbl_page, view, diff_boxes,
                        btn_compare, printed, crashed, pc, todo>>
    /\ UNCHANGED <<fs, app, stepwise, mode, opacity, chk_hl, scale, timer>>

\* The message box of _check_duplicate_files is closed: _load_file goes on
\* to its _refresh_comparison().
DialogClosed ==
    /\ ~crashed
    /\ pc = "dialog"
    /\ \E r \in refresh_comparison(docs, Cur, curr_page, total_pages, mode) :
           Apply(r, docs, mode)
    /\ UNCHANGED <<fs, app, stepwise, docs, paths, curr_page, total_pages, mode,
                   opacity, chk_hl, scale, timer, btn_compare>>

\* Stepwise: one pass of the loop at the end of compare_visual, one
\* rectangle appended.
AppendBox ==
    /\ pc = "compare"
    /\ todo # <<>>
    /\ diff_boxes' = Append(diff_boxes, Head(todo))
    /\ todo' = Tail(todo)
    /\ UNCHANGED <<fs, app, stepwise, docs, paths, curr_page, total_pages, mode,
                   opacity, chk_hl, scale, timer, lbl_page, btn_compare, view,
                   printed, crashed, pc>>

\* Stepwise: compare_visual has returned, and _refresh_comparison ends with
\* its _update_render().
RenderAfterCompare ==
    /\ pc = "compare"
    /\ todo = <<>>
    /\ view' = update_render(docs, diff_boxes, curr_page, scale, opacity,
                             chk_hl, mode, view)
    /\ pc' = "idle"
    /\ UNCHANGED <<fs, app, stepwise, docs, paths, diff_boxes, curr_page,
                   total_pages, mode, opacity, chk_hl, scale, timer, lbl_page,
                   btn_compare, printed, crashed, todo>>

\* _load_file(slot, path) when fitz.open(path) raises: load_doc has stored
\* the path, and the exception leaves the handler.
LoadFileFail(slot, path) ==
    /\ ~crashed
    /\ AcceptsInput(pc)
    /\ fs[path] = Corrupt
    /\ paths' = [paths EXCEPT ![slot] = path]
    /\ crashed' = TRUE
    /\ UNCHANGED <<fs, app, stepwise, docs, diff_boxes, curr_page, total_pages,
                   mode, opacity, chk_hl, scale, timer, lbl_page, btn_compare,
                   view, printed, pc, todo>>

\* What _prev_page / _next_page do once curr_page has become page.
Turned(page) ==
    /\ curr_page' = page
    /\ IF app = "diff_pdf" \/ is_ready(docs)
       THEN \E r \in refresh_comparison(docs, Cur, page, total_pages, mode) :
                Apply(r, docs, mode)
       ELSE /\ lbl_page' = <<page + 1, total_pages>>
            /\ view' = update_render(docs, diff_boxes, page, scale, opacity,
                                     chk_hl, mode, view)
            /\ UNCHANGED <<diff_boxes, printed, crashed, pc, todo>>

\* _prev_page
PrevPage ==
    /\ ~crashed
    /\ AcceptsInput(pc)
    /\ IF curr_page > 0
       THEN Turned(curr_page - 1)
       ELSE UNCHANGED <<curr_page, diff_boxes, lbl_page, view, printed, crashed,
                        pc, todo>>
    /\ UNCHANGED <<fs, app, stepwise, docs, paths, total_pages, mode, opacity,
                   chk_hl, scale, timer, btn_compare>>

\* Faulty variant of _next_page: the bound is total_pages, not
\* total_pages - 1.
NextPage_past_last ==
    /\ ~crashed
    /\ AcceptsInput(pc)
    /\ IF curr_page < total_pages
       THEN Turned(curr_page + 1)
       ELSE UNCHANGED <<curr_page, diff_boxes, lbl_page, view, printed, crashed,
                        pc, todo>>
    /\ UNCHANGED <<fs, app, stepwise, docs, paths, total_pages, mode, opacity,
                   chk_hl, scale, timer, btn_compare>>

\* _next_page
NextPage ==
    /\ ~crashed
    /\ AcceptsInput(pc)
    /\ IF curr_page < total_pages - 1
       THEN Turned(curr_page + 1)
       ELSE UNCHANGED <<curr_page, diff_boxes, lbl_page, view, printed, crashed,
                        pc, todo>>
    /\ UNCHANGED <<fs, app, stepwise, docs, paths, total_pages, mode, opacity,
                   chk_hl, scale, timer, btn_compare>>

\* combo_mode.currentIndexChanged -> _refresh_comparison.  Only diff_pdf.py
\* offers a second entry ("Text Diff").
ModeChanged(idx) ==
    /\ ~crashed
    /\ AcceptsInput(pc)
    /\ app = "diff_pdf"
    /\ idx # mode
    /\ mode' = idx
    /\ \E r \in refresh_comparison(docs, Cur, curr_page, total_pages, idx) :
           Apply(r, docs, idx)
    /\ UNCHANGED <<fs, app, stepwise, docs, paths, curr_page, total_pages,
                   opacity, chk_hl, scale, timer, btn_compare>>

\* diff_pdf.py: btn_compare.clicked -> _refresh_comparison
RunCompare ==
    /\ ~crashed
    /\ AcceptsInput(pc)
    /\ app = "diff_pdf"
    /\ btn_compare
    /\ \E r \in refresh_comparison(docs, Cur, curr_page, total_pages, mode) :
           Apply(r, docs, mode)
    /\ UNCHANGED <<fs, app, stepwise, docs, paths, curr_page, total_pages, mode,
                   opacity, chk_hl, scale, timer, btn_compare>>

\* opacity_spin.valueChanged -> _update_render
OpacityChanged(v) ==
    /\ ~crashed
    /\ AcceptsInput(pc)
    /\ v # opacity
    /\ opacity' = v
    /\ view' = update_render(docs, diff_boxes, curr_page, scale, v, chk_hl,
                             mode, view)
    /\ UNCHANGED <<fs, app, stepwise, docs, paths, diff_boxes, curr_page,
                   total_pages, mode, chk_hl, scale, timer, lbl_page, btn_compare,
                   printed, crashed, pc, todo>>

\* chk_hl1 / chk_hl2 toggled -> _update_render
HighlightToggled(slot) ==
    /\ ~crashed
    /\ AcceptsInput(pc)
    /\ chk_hl' = [chk_hl EXCEPT ![slot] = ~chk_hl[slot]]
    /\ view' = update_render(docs, diff_boxes, curr_page, scale, opacity,
                             chk_hl', mode, view)
    /\ UNCHANGED <<fs, app, stepwise, docs, paths, diff_boxes, curr_page,
                   total_pages, mode, opacity, scale, timer, lbl_page, btn_compare,
                   printed, crashed, pc, todo>>

\* zoom_spin.valueChanged -> _on_zoom_changed: the scale is set and the
\* single-shot render_timer (re)started.
ZoomChanged(v) ==
    /\ ~crashed
    /\ AcceptsInput(pc)
    /\ v # scale
    /\ scale' = v
    /\ timer' = TRUE
    /\ UNCHANGED <<fs, app, stepwise, docs, paths, diff_boxes, curr_page,
                   total_pages, mode, opacity, chk_hl, lbl_page, btn_compare, view,
                   printed, crashed, pc, todo>>

\* render_timer.timeout -> _update_render
TimerFired ==
    /\ ~crashed
    /\ EventLoopRuns(pc)
    /\ timer
    /\ timer' = FALSE
    /\ view' = update_render(docs, diff_boxes, curr_page, scale, opacity,
                             chk_hl, mode, view)
    /\ UNCHANGED <<fs, app, stepwise, docs, paths, diff_boxes, curr_page,
                   total_pages, mode, opacity, chk_hl, scale, lbl_page, btn_compare,
                   printed, crashed, pc, todo>>

(***************************************************************************)
(* Inputs: the pages, texts and files the runs draw from.                  *)
(***************************************************************************)
PageW == 8       \* width and height of the pages compared
PageH == 8
AltW == 6        \* a second width and height, for pages of another size
AltH == 5
MaxDots == 1     \* pixels by which one page differs from the page it is drawn from
MaxLen == 3      \* longest short text
LongLen == 200   \* length of the long text

Black == <<0, 0, 0>>
Grey20 == <<20, 20, 20>>
Grey21 == <<21, 21, 21>>
Red == <<255, 0, 0>>
Green == <<0, 130, 0>>
DotColours == {Grey20, Grey21, Green}

Blank(w, h, c) == [width |-> w, height |-> h, samples |-> [i \in 1..(w * h) |-> c]]
WithDot(pix, x, y, c) == [pix EXCEPT !.samples[y * pix.width + x + 1] = c]

\* The pixels a drawn page may differ in: the last column (row) of the first
\* grid cell, the first of the second, and the last of the page.
DotCoords(n) == {grid_size - 1, grid_size, n - 1} \cap (0..(n - 1))
DotPlaces(pix) == DotCoords(pix.width) \X DotCoords(pix.height)

RECURSIVE Dotted(_, _)
Dotted(pix, n) ==
    IF n = 0 THEN {pix}
    ELSE Dotted(pix, n - 1) \cup
         {WithDot(q, xy[1], xy[2], c) :
             q \in Dotted(pix, n - 1), xy \in DotPlaces(pix), c \in DotColours}

BasePixmaps == {Blank(PageW, PageH, Black), Blank(PageW, PageH, Red)}

\* pix with its first pixel moved by exactly the threshold in every channel.
Shade(c) == IF c >= 128 THEN c - Threshold ELSE c + Threshold
Shaded(pix) ==
    LET px == Pixel(pix, 0, 0)
    IN  WithDot(pix, 0, 0, <<Shade(px[1]), Shade(px[2]), Shade(px[3])>>)
AltPixmaps == {Blank(AltW, PageH, Black), Blank(PageW, AltH, Grey21)}

RECURSIVE Strings(_, _)
Strings(alphabet, n) ==
    IF n = 0 THEN {<<>>}
    ELSE Strings(alphabet, n - 1) \cup
         {Append(t, ch) : t \in Strings(alphabet, n - 1), ch \in alphabet}

LongText == [i \in 1..LongLen |-> IF i % 2 = 1 THEN "a" ELSE "b"]
LongTextAlt == [LongText EXCEPT ![LongLen] = "c"]
Texts == Strings({"a", "b"}, MaxLen)
            \cup {<<"a", "b", "c">>, <<"a", "b", "d">>, LongText, LongTextAlt}

Doc(name, pages) == [name |-> name, pages |-> pages]
Page(pix, text) == [pixmap |-> pix, text |-> text]

\* The files of the window runs: a and b have pages of one size, b one page
\* more; their first pages differ in two grid cells, their second pages in
\* the text only; c has pages of other sizes; d does not open.
Catalogue ==
    LET p0 == Blank(PageW, PageH, Black)
        p1 == WithDot(p0, 2, 2, Red)
    IN  [a |-> Doc("a", <<Page(p0, <<"a", "b">>), Page(p1, <<"a", "b", "c">>)>>),
         b |-> Doc("b", <<Page(WithDot(WithDot(WithDot(p0, 0, 0, Grey20),
                                               PageW - 1, 0, Red),
                                       PageW - 1, PageH - 1, Grey21), <<"a", "b">>),
                          Page(p1, <<"a", "b", "d">>),
                          Page(p0, <<>>)>>),
         c |-> Doc("c", <<Page(Blank(AltW, PageH, Black), <<"b">>),
                          Page(Blank(PageW, AltH, Black), <<>>)>>),
         d |-> Corrupt]

\* Two one-page files for the raster comparison: b's page is a's shaded,
\* with up to MaxDots more pixels changed, or a page of another size.
RasterFiles ==
    UNION {{[a |-> Doc("a", <<Page(pa, <<>>)>>), b |-> Doc("b", <<Page(pb, <<>>)>>)] :
               pb \in Dotted(Shaded(pa), MaxDots) \cup AltPixmaps} :
           pa \in BasePixmaps}

Paths == DOMAIN fs
ZoomValues == {100, 200}
OpacityValues == {0, 30, 100}

Start ==
    /\ app \in {"main_window", "diff_pdf"}
    /\ docs = [slot \in Slots |-> None]
    /\ paths = [slot \in Slots |-> ""]
    /\ diff_boxes = <<>>
    /\ curr_page = 0
    /\ total_pages = 0
    /\ mode = 0
    /\ opacity = 30
    /\ chk_hl = [slot \in Slots |-> TRUE]
    /\ scale = 100
    /\ timer = FALSE
    /\ lbl_page = <<0, 0>>
    /\ btn_compare = FALSE
    /\ view = [slot \in Slots |-> None]
    /\ printed = None
    /\ crashed = FALSE
    /\ pc = "idle"
    /\ todo = <<>>

Init == fs = Catalogue /\ Start /\ stepwise = FALSE

Next ==
    \/ \E slot \in Slots, path \in Paths : LoadFile(slot, path)
    \/ \E slot \in Slots, path \in Paths : LoadFileFail(slot, path)
    \/ PrevPage
    \/ NextPage
    \/ \E idx \in {0, 1} : ModeChanged(idx)
    \/ RunCompare
    \/ \E v \in OpacityValues : OpacityChanged(v)
    \/ \E slot \in Slots : HighlightToggled(slot)
    \/ \E v \in ZoomValues : ZoomChanged(v)
    \/ TimerFired
    \/ DialogClosed

Spec == Init /\ [][Next]_vars

\* The same window runs at the grain of compare_visual's statements: its
\* reset of diff_boxes and each append are steps, and whatever the event
\* loop can deliver between two steps is delivered there.
InitSteps == fs = Catalogue /\ Start /\ stepwise = TRUE

NextSteps ==
    \/ Next
    \/ AppendBox
    \/ RenderAfterCompare

SpecSteps == InitSteps /\ [][NextSteps]_vars

\* Two one-page files for the text comparison.
TextFiles ==
    LET pix == Blank(1, 1, Black)
    IN  {[a |-> Doc("a", <<Page(pix, ta)>>), b |-> Doc("b", <<Page(pix, tb)>>)] :
            ta \in Texts, tb \in Texts}

\* The raster comparison on drawn pages, in the window of src/diff_pdf.py
\* (the engine is the same in both): the files are loaded into the slots in
\* every order.
InitRaster == fs \in RasterFiles /\ Start /\ app = "diff_pdf" /\ stepwise = FALSE

NextRaster == \E slot \in Slots, path \in Paths : LoadFile(slot, path)

SpecRaster == InitRaster /\ [][NextRaster]_vars

\* The text comparison on drawn texts, in the copy of the window that
\* offers "Text Diff".
InitText == fs \in TextFiles /\ Start /\ app = "diff_pdf" /\ stepwise = FALSE

NextText ==
    \/ \E slot \in Slots, path \in Paths : LoadFile(slot, path)
    \/ \E idx \in {0, 1} : ModeChanged(idx)

SpecText == InitText /\ [][NextText]_vars

(***************************************************************************)
(* Properties.  The state as the properties read it.                       *)
(***************************************************************************)
\* The grid sizes and thresholds the parametric properties range over: the
\* program's own, and around them.
GridSizes == {1, 3, grid_size, PageW}
ThresholdSeq == <<0, Threshold - 1, Threshold, Threshold + 1>>
Thresholds == SeqToSet(ThresholdSeq)

\* Both slots hold a document with a page at curr_page.
Comparable ==
    /\ is_ready(docs)
    /\ curr_page < PageCount(docs[1])
    /\ curr_page < PageCount(docs[2])

\* The page of the slot's document at curr_page, as rendered.
Pix(slot) == PageOf(docs[slot], curr_page).pixmap
SizeOf(pix) == <<pix.width, pix.height>>

\* The last refresh compared the pages at curr_page visually.
VisualShown == Comparable /\ mode = 0 /\ pc = "idle"

\* The per-pixel delta the grid stage reads at (x, y).
Delta(pix1, pix2, x, y) ==
    LET p == Pixel(pix1, x, y)
        q == Pixel(pix2, x, y)
    IN  ConvertL(<<ChannelDiff(p[1], q[1]), ChannelDiff(p[2], q[2]),
                   ChannelDiff(p[3], q[3])>>)

\* The grid cells <<column, row>> of a w x h page, partial ones included.
Cells(w, h, g) == (0..((w + g - 1) \div g - 1)) \X (0..((h + g - 1) \div g - 1))

\* The largest delta over the pixels of cell c that lie on the page.
CellMax(pix1, pix2, c, g) ==
    SetMax({Delta(pix1, pix2, x, y) :
               x \in (c[1] * g)..Min(c[1] * g + g - 1, pix1.width - 1),
               y \in (c[2] * g)..Min(c[2] * g + g - 1, pix1.height - 1)})

\* The number of regions of boxes whose origin is that of cell c.
RegionsAt(boxes, c, g) ==
    Cardinality({k \in 1..Len(boxes) :
                    boxes[k][1] = c[1] * g /\ boxes[k][2] = c[2] * g})

\* C1: whenever the two pages of a visual comparison differ in width or
\* height, diff_boxes is empty after compare_visual, whatever list the call
\* found.
C1_SizeMismatchEmpty ==
    (VisualShown /\ SizeOf(Pix(1)) # SizeOf(Pix(2))) =>
        /\ diff_boxes = <<>>
        /\ \A held \in {<<>>, <<Box(0, 0, grid_size)>>, <<Box(1, 1, grid_size), Box(0, 1, grid_size)>>} :
              compare_visual(docs, held, curr_page) = <<>>

\* C1: pages of different sizes have been compared and are on display.
C1_Witness ==
    /\ VisualShown
    /\ SizeOf(Pix(1)) # SizeOf(Pix(2))
    /\ diff_boxes = <<>>
    /\ lbl_page = <<curr_page + 1, total_pages>>
    /\ \A slot \in Slots : view[slot] # None /\ view[slot].doc = docs[slot].name

\* C2: every region (x, y, w, h) has x and y multiples of the grid size and
\* w = min(G, page_width - x), h = min(G, page_height - y); on an 8x8 page
\* with G = 5 the footprints are (0,0,5,5), (5,0,3,5), (0,5,5,3), (5,5,3,3).
C2_RegionsClipped ==
    VisualShown =>
        \A k \in 1..Len(diff_boxes) :
            LET r == diff_boxes[k]
                page_width == Pix(1).width
                page_height == Pix(1).height
            IN  /\ r[1] % grid_size = 0
                /\ r[2] % grid_size = 0
                /\ r[3] = Min(grid_size, page_width - r[1])
                /\ r[4] = Min(grid_size, page_height - r[2])
                /\ (page_width = 8 /\ page_height = 8 /\ grid_size = 5) =>
                      r \in {<<0, 0, 5, 5>>, <<5, 0, 3, 5>>,
                             <<0, 5, 5, 3>>, <<5, 5, 3, 3>>}

\* The regions boxes are exactly one per cell whose largest on-page delta
\* exceeds t, and none elsewhere.
OnePerHotCell(boxes, pix1, pix2, g, t) ==
    LET cells == Cells(pix1.width, pix1.height, g)
    IN  /\ \A c \in cells :
              RegionsAt(boxes, c, g) = IF CellMax(pix1, pix2, c, g) > t THEN 1 ELSE 0
        /\ \A k \in 1..Len(boxes) :
              \E c \in cells : boxes[k][1] = c[1] * g /\ boxes[k][2] = c[2] * g

\* C3: for two pages of equal size the regions are exactly one for each grid
\* cell, partial cells at the right and bottom edge included, whose largest
\* delta over its on-page pixels is strictly greater than the threshold, and
\* none for any other cell: none for a cell whose largest delta equals the
\* threshold, none caused by the padding.
C3_OneRegionPerHotCell ==
    (Comparable /\ SizeOf(Pix(1)) = SizeOf(Pix(2))) =>
        /\ VisualShown => OnePerHotCell(diff_boxes, Pix(1), Pix(2), grid_size, Threshold)
        /\ \A g \in GridSizes :
              OnePerHotCell(Regions(Pix(1), Pix(2), g, Threshold),
                            Pix(1), Pix(2), g, Threshold)

\* C3: a cell whose largest delta equals the threshold has no region, and a
\* partial cell of the edge whose largest delta exceeds it has the only one.
C3_Witness ==
    /\ VisualShown
    /\ SizeOf(Pix(1)) = SizeOf(Pix(2))
    /\ \E c1, c2 \in Cells(Pix(1).width, Pix(1).height, grid_size) :
          /\ CellMax(Pix(1), Pix(2), c1, grid_size) = Threshold
          /\ c2[1] * grid_size + grid_size > Pix(1).width
          /\ c2[2] * grid_size + grid_size > Pix(1).height
          /\ CellMax(Pix(1), Pix(2), c2, grid_size) > Threshold
          /\ diff_boxes = <<<<c2[1] * grid_size, c2[2] * grid_size,
                              grid_size, grid_size>>>>

\* C4: comparing a page with itself yields no region, for every grid size
\* and every threshold; two slots showing the same page have no region.
C4_SelfDiffEmpty ==
    /\ \A slot \in Slots :
          docs[slot] # None =>
              \A n \in 0..(PageCount(docs[slot]) - 1), g \in GridSizes, t \in Thresholds :
                  LET P == PageOf(docs[slot], n).pixmap
                  IN  Regions(P, P, g, t) = <<>>
    /\ (VisualShown /\ Pix(1) = Pix(2)) => diff_boxes = <<>>

\* C4: the same page has been compared with itself, from two files or one.
C4_Witness ==
    /\ VisualShown
    /\ Pix(1) = Pix(2)
    /\ Pix(1) # Blank(Pix(1).width, Pix(1).height, Black)
    /\ diff_boxes = <<>>
    /\ \A slot \in Slots : view[slot] # None /\ view[slot].rects = <<>>

\* C5: the regions of A against B and of B against A are the same set, for
\* pages of equal or unequal size, every grid size and every threshold; the
\* regions stored are those of the slots exchanged.
C5_Symmetric ==
    Comparable =>
        /\ \A g \in GridSizes, t \in Thresholds :
              SeqToSet(Regions(Pix(1), Pix(2), g, t))
                  = SeqToSet(Regions(Pix(2), Pix(1), g, t))
        /\ VisualShown =>
              SeqToSet(diff_boxes)
                  = SeqToSet(Regions(Pix(2), Pix(1), grid_size, Threshold))

\* C5: two different pages of one size have been compared and regions found
\* that the comparison the other way round finds too.
C5_Witness ==
    /\ VisualShown
    /\ diff_boxes # <<>>
    /\ SeqToSet(diff_boxes) = SeqToSet(Regions(Pix(2), Pix(1), grid_size, Threshold))
    /\ \E x \in 0..(Pix(1).width - 1), y \in 0..(Pix(1).height - 1) :
          \E ch \in 1..3 : Pixel(Pix(1), x, y)[ch] > Pixel(Pix(2), x, y)[ch]

\* C6: for fixed pages and a fixed grid size, the regions computed with the
\* larger of two thresholds are a subset of those computed with the smaller;
\* the regions stored lie between those of the thresholds around 20.
C6_ThresholdMonotonic ==
    Comparable =>
        /\ \A g \in GridSizes :
              LET found == <<>> \o [i \in 1..Len(ThresholdSeq) |->
                               SeqToSet(Regions(Pix(1), Pix(2), g, ThresholdSeq[i]))]
              IN  \A i, j \in 1..Len(ThresholdSeq) :
                      ThresholdSeq[i] < ThresholdSeq[j] => found[j] \subseteq found[i]
        /\ VisualShown =>
              /\ SeqToSet(Regions(Pix(1), Pix(2), grid_size, Threshold + 1))
                     \subseteq SeqToSet(diff_boxes)
              /\ SeqToSet(diff_boxes)
                     \subseteq SeqToSet(Regions(Pix(1), Pix(2), grid_size, Threshold - 1))

\* C6: pages whose regions shrink with each step of the threshold from 19
\* over 20 to 21.
C6_Witness ==
    /\ VisualShown
    /\ Len(Regions(Pix(1), Pix(2), grid_size, Threshold - 1)) > Len(diff_boxes)
    /\ Len(diff_boxes) > Len(Regions(Pix(1), Pix(2), grid_size, Threshold + 1))

\* The text of the slot's page at curr_page.
Txt(slot) == PageOf(docs[slot], curr_page).text

\* The last refresh compared the texts at curr_page.
TextShown == Comparable /\ mode = 1 /\ pc = "idle"

\* C7: the ratio of two texts is 1.0 exactly when they are identical, two
\* empty texts included, and 0.0 when exactly one of them is empty; the line
\* printed shows 100.0 and 0.0 then.
C7_RatioOneIffIdentical ==
    Comparable =>
        LET ratio == TextRatio(Txt(1), Txt(2))
            one_empty == (Txt(1) = <<>>) # (Txt(2) = <<>>)
        IN  /\ ratio[1] = ratio[2] <=> Txt(1) = Txt(2)
            /\ one_empty => ratio[1] = 0
            /\ mode = 1 =>
                  /\ printed.kind = "Match"
                  /\ printed.tenths \in FormatTenths(ratio)
                  /\ Txt(1) = Txt(2) => printed.tenths = 1000
                  /\ one_empty => printed.tenths = 0

\* C7: two files of the same long text have been compared, and 100.0 printed.
C7_Witness ==
    /\ TextShown
    /\ paths[1] # paths[2]
    /\ Txt(1) = Txt(2)
    /\ Len(Txt(1)) >= LongLen
    /\ printed = [kind |-> "Match", tenths |-> 1000]

\* The total length M of the matching blocks found by taking the longest
\* common substring, the earliest on ties, and recursing to its left and
\* right: the matcher with no character set aside.
ClassicMatched(a, b) == MatchedSize(a, b, {}, 0, Len(a), 0, Len(b))

\* C8: for every pair of texts the ratio is 2 * M / (len(a) + len(b)) with M
\* the total length of the longest-common-substring-first matching blocks;
\* it lies in [0, 1], and for "abc" against "abd" it is 2 * 2 / 6.
C8_RatioIsClassic ==
    Comparable =>
        LET a == Txt(1)
            b == Txt(2)
            ratio == TextRatio(a, b)
        IN  /\ Len(a) + Len(b) > 0 =>
                  ratio[1] * (Len(a) + Len(b)) = 2 * ClassicMatched(a, b) * ratio[2]
            /\ 0 <= ratio[1] /\ ratio[1] <= ratio[2]
            /\ (a = <<"a", "b", "c">> /\ b = <<"a", "b", "d">>) =>
                  ratio[1] * 6 = 2 * 2 * ratio[2]

\* Empty, SingleLoaded or BothLoaded, by the slots that hold a document.
SessionState(d) ==
    IF d[1] = None /\ d[2] = None THEN "Empty"
    ELSE IF is_ready(d) THEN "BothLoaded"
    ELSE "SingleLoaded"

\* The session state a load into slot leads to from the documents d.
AfterLoad(d, slot) ==
    IF SessionState(d) = "BothLoaded" THEN "BothLoaded"
    ELSE IF SessionState(d) = "Empty" THEN "SingleLoaded"
    ELSE IF d[slot] # None THEN "SingleLoaded" ELSE "BothLoaded"

\* C9: the session state is Empty, SingleLoaded or BothLoaded; a successful
\* load into a slot replaces that slot's document and leaves the other slot
\* as it was, so that Empty goes to SingleLoaded, SingleLoaded to BothLoaded
\* on loading the other slot and to SingleLoaded on loading the same, and
\* BothLoaded to BothLoaded; no step empties a slot, and no other step
\* changes the documents.
C9_SessionStates ==
    [][/\ SessionState(docs') \in {"Empty", "SingleLoaded", "BothLoaded"}
       /\ \A slot \in Slots : docs[slot] # None => docs'[slot] # None
       /\ \A slot \in Slots, path \in Paths :
             \* the step is no load of path into slot, or else:
             \/ /\ docs'[slot] = fs[path]
                /\ docs'[Other(slot)] = docs[Other(slot)]
                /\ SessionState(docs') = AfterLoad(docs, slot)
             \/ ~LoadFile(slot, path)
       /\ \/ docs' = docs
          \/ \E slot \in Slots, path \in Paths : LoadFile(slot, path)]_vars

\* C9: both slots are loaded, the first with a file loaded over another.
C9_Witness ==
    /\ SessionState(docs) = "BothLoaded"
    /\ docs[1] = fs["c"] /\ paths[1] = "c"
    /\ docs[2] = fs["b"] /\ paths[2] = "b"
    /\ total_pages = 2
    /\ curr_page = 1

\* C10: a refresh while a slot is empty is a no-op: no error, no comparison,
\* and diff_boxes, curr_page, total_pages and the documents as they were.
C10_RefreshNoOp ==
    [][~is_ready(docs) =>
          /\ refresh_comparison(docs, Cur, curr_page, total_pages, mode) = {Cur}
          /\ mode' # mode =>
                /\ crashed' = crashed
                /\ printed' = printed
                /\ diff_boxes' = diff_boxes
                /\ curr_page' = curr_page
                /\ total_pages' = total_pages
                /\ docs' = docs]_vars

\* C10: the mode has been changed to "Text Diff", and with it a refresh run,
\* with one slot loaded and one empty.
C10_Witness ==
    /\ app = "diff_pdf"
    /\ mode = 1
    /\ SessionState(docs) = "SingleLoaded"
    /\ ~crashed
    /\ printed = None
    /\ diff_boxes = <<>>

\* The page indices the engine is called with: those of the longest document
\* of the catalogue and one beyond.
PageIndices == 0..3

\* C11: in every session state, with any slot unset and for any page index,
\* each engine operation gives a result or an empty outcome and none raises:
\* compare_visual leaves no regions, get_page_size gives (0, 0) and
\* get_pixmap gives no image for an unset slot, and compare_text returns one
\* of its strings.
C11_UnsetSlotIsEmpty ==
    ~is_ready(docs) =>
        \A page_num \in PageIndices :
            /\ compare_visual(docs, diff_boxes, page_num) = <<>>
            /\ \A slot \in Slots :
                  docs[slot] = None =>
                      /\ get_page_size(docs, slot, page_num) = <<0, 0>>
                      /\ get_pixmap(docs, diff_boxes, slot, page_num, scale,
                                    opacity, chk_hl[slot]) = None
            /\ \A r \in compare_text(docs, page_num) :
                  r.kind \in {"Match", "Page Range Error"}

\* C12: with both slots loaded, a refresh of a page index at or beyond
\* total_pages, in visual mode as in text mode, raises nothing, compares
\* nothing, and leaves the page-range report for its caller.
C12_PageRangeReported ==
    (is_ready(docs) /\ pc = "idle" /\ ~crashed) =>
        \A page \in PageIndices, md \in {0, 1} :
            page >= total_pages =>
                \A r \in refresh_comparison(docs, Cur, page, total_pages, md) :
                    /\ ~r.crashed
                    /\ md = 0 => r.diff_boxes = <<>>
                    /\ r.printed = [kind |-> "Page Range Error"]

\* min(pagesA, pagesB) with both slots loaded, the page count of the loaded
\* document with one, 0 with none.
ExpectedTotal(d) ==
    IF is_ready(d) THEN Min(PageCount(d[1]), PageCount(d[2]))
    ELSE IF d[1] # None THEN PageCount(d[1])
    ELSE IF d[2] # None THEN PageCount(d[2])
    ELSE 0

\* C13: after any sequence of loads total_pages is min(pagesA, pagesB) when
\* both slots are loaded, the page count of the loaded document when one is,
\* and 0 when none is.
C13_TotalPagesRecomputed == total_pages = ExpectedTotal(docs)

\* The page of the slot's document as get_pixmap builds it before any
\* overlay: the base image.
BaseImage(d, slot, page_num, sc) ==
    [doc |-> d[slot].name, page |-> page_num, scale |-> sc, alpha |-> 0,
     rects |-> <<>>]

\* Region sets to composite: none, the cached one, one rectangle.
RegionSets == {<<>>, diff_boxes, <<Box(0, 0, grid_size)>>}

\* C14: for every scale and every region set, get_pixmap returns the base
\* page image, with no rectangle drawn, whenever the opacity is 0, the
\* region set is empty or the highlight flag is off; and a view that shows
\* rectangles was rendered with opacity above 0, the flag on, and regions
\* cached.
C14_NoOverlayWhenOff ==
    /\ \A slot \in Slots :
          (view[slot] # None /\ view[slot].rects # <<>> /\ pc = "idle") =>
              opacity > 0 /\ chk_hl[slot] /\ diff_boxes # <<>>
    /\ \A slot \in Slots, sc \in ZoomValues, op \in OpacityValues,
          boxes \in RegionSets, show_diff \in BOOLEAN :
          LET img == get_pixmap(docs, boxes, slot, curr_page, sc, op, show_diff)
          IN  (img # None /\ (op = 0 \/ boxes = <<>> \/ ~show_diff)) =>
                  img = BaseImage(docs, slot, curr_page, sc)

\* C14: regions are cached and both flags on, and after the opacity went to
\* 0 both views show the bare pages.
C14_Witness ==
    /\ is_ready(docs) /\ mode = 0 /\ pc = "idle"
    /\ diff_boxes # <<>>
    /\ chk_hl[1] /\ chk_hl[2]
    /\ opacity = 0
    /\ \A slot \in Slots : view[slot] = BaseImage(docs, slot, curr_page, scale)

\* round(percent * 2.55): the nearest byte value, either neighbour where
\* percent * 2.55 lies halfway between two.
RoundedAlpha(percent) ==
    IF (percent * 255) % 100 = 50
    THEN {(percent * 255) \div 100, (percent * 255) \div 100 + 1}
    ELSE {(percent * 255 + 50) \div 100}

\* C15: for an opacity of 1..100 percent the overlay is drawn with alpha
\* round(opacity * 2.55), 255 at 100 percent: the alpha get_pixmap takes for
\* the opacity set, and the alpha of every view that shows rectangles.
C15_AlphaRounded ==
    /\ opacity > 0 => OverlayAlpha(opacity) \in RoundedAlpha(opacity)
    /\ \A slot \in Slots :
          (view[slot] # None /\ view[slot].rects # <<>>) =>
              view[slot].alpha \in RoundedAlpha(opacity)

\* |luma(pixelA) - luma(pixelB)| at (x, y), each page converted to
\* grayscale separately.
LumaDelta(pix1, pix2, x, y) ==
    Abs(ConvertL(Pixel(pix1, x, y)) - ConvertL(Pixel(pix2, x, y)))

\* C16: the delta the grid stage reads at a pixel is |luma(pixelA) -
\* luma(pixelB)|, so that it is 0 for two pixels of equal luma, and a cell
\* gets its region exactly when that difference exceeds the threshold
\* somewhere in it.
C16_DeltaIsLumaDifference ==
    (VisualShown /\ SizeOf(Pix(1)) = SizeOf(Pix(2))) =>
        /\ \A x \in 0..(Pix(1).width - 1), y \in 0..(Pix(1).height - 1) :
              /\ ConvertL(Pixel(Pix(1), x, y)) = ConvertL(Pixel(Pix(2), x, y)) =>
                     Delta(Pix(1), Pix(2), x, y) = 0
              /\ Delta(Pix(1), Pix(2), x, y) = LumaDelta(Pix(1), Pix(2), x, y)
        /\ \A c \in Cells(Pix(1).width, Pix(1).height, grid_size) :
              Box(c[1], c[2], grid_size) \in SeqToSet(diff_boxes) <=>
                  \E x \in (c[1] * grid_size)..Min(c[1] * grid_size + grid_size - 1,
                                                   Pix(1).width - 1),
                     y \in (c[2] * grid_size)..Min(c[2] * grid_size + grid_size - 1,
                                                   Pix(1).height - 1) :
                     LumaDelta(Pix(1), Pix(2), x, y) > Threshold

\* C17: with both slots loaded, in visual mode and in text mode alike, the
\* cached region set is the one of the last refresh, which is the result
\* for the current page of the current pair (in text mode, that or the
\* empty set); it never holds the regions of another page or pair.
C17_RegionsReplacedWholesale ==
    (is_ready(docs) /\ pc = "idle") =>
        \/ diff_boxes = compare_visual(docs, <<>>, curr_page)
        \/ mode = 1 /\ diff_boxes = <<>>

\* 0 <= page, and page < total whenever total > 0.
PageInRange(page, total) == 0 <= page /\ (total > 0 => page < total)

\* C20: after any sequence of loads and page turns 0 <= curr_page, and
\* curr_page < total_pages whenever total_pages > 0; curr_page moves only by
\* one step inside that range or back to 0, previous-page at page 0 and
\* next-page at the last page leave it as it is, and a load that changes
\* total_pages resets it to 0.
C20_PageInRange ==
    [][/\ PageInRange(curr_page, total_pages)
       /\ PageInRange(curr_page', total_pages')
       /\ \/ curr_page' = curr_page
          \/ curr_page' = 0
          \/ curr_page' = curr_page - 1 /\ curr_page > 0
          \/ curr_page' = curr_page + 1 /\ curr_page + 1 < total_pages
       /\ total_pages' # total_pages => curr_page' = 0
       /\ curr_page = 0 => (curr_page' = 0 \/ ~PrevPage)
       /\ curr_page >= total_pages - 1 => (curr_page' = curr_page \/ ~NextPage)
       /\ curr_page' = curr_page + 1 => NextPage
       /\ (curr_page' = curr_page - 1 /\ curr_page' # 0) => PrevPage]_vars

\* C20: one document of three pages is loaded, and the window has been
\* turned to its last page.
C20_Witness ==
    /\ app = "main_window"
    /\ SessionState(docs) = "SingleLoaded"
    /\ total_pages = 3
    /\ curr_page = 2
    /\ lbl_page = <<3, 3>>

\* The rectangles get_pixmap paints for the regions boxes at the scale sc.
Scaled(boxes, sc) ==
    [k \in 1..Len(boxes) |->
        <<boxes[k][1] * sc, boxes[k][2] * sc, boxes[k][3] * sc, boxes[k][4] * sc>>]

\* C19: whenever a render draws overlay rectangles into a view, they are the
\* regions compare_visual gives for the current page of the pair of
\* documents loaded at that moment, and the cached set is that result: no
\* regions of another page or of an earlier document are displayed.
C19_NoStaleRegionsDrawn ==
    [][\A slot \in Slots :
          (view'[slot] # view[slot] /\ view'[slot].rects # <<>>) =>
              /\ diff_boxes' = compare_visual(docs', <<>>, curr_page')
              /\ view'[slot].rects = Scaled(diff_boxes', scale')]_vars

\* C18: no render reads a partially written region set.  While
\* compare_visual has rectangles yet to append, the only step taken is its
\* next append and no view is drawn; every step that draws a view reads a
\* list nothing is left to append to, and the rectangles it draws are all of
\* that list or none.
C18_NoPartialRegionsRendered ==
    [][/\ (pc = "compare" /\ todo # <<>>) =>
             /\ view' = view
             /\ timer' = timer
             /\ diff_boxes' = Append(diff_boxes, Head(todo))
       /\ view' # view =>
             /\ todo = <<>>
             /\ \A slot \in Slots :
                   view'[slot] # view[slot] =>
                       view'[slot].rects \in {<<>>, Scaled(diff_boxes, scale)}]_vars

\* C18: compare_visual is between its two appends, the list half filled,
\* while the zoom timer waits to fire and the views still show the regions
\* of the refresh before.
C18_Witness ==
    /\ pc = "compare"
    /\ Len(diff_boxes) = 1
    /\ Len(todo) = 1
    /\ timer
    /\ view[1] # None /\ Len(view[1].rects) = 2

\* The path the engine should hold for a slot: that of the document the slot
\* holds, empty when it holds none.
PathOf(doc) == IF doc = None THEN "" ELSE doc.name

\* C21: in every reachable state paths[slot] is the path of the document
\* held in docs[slot], and empty exactly when the slot holds none: a
\* load_doc that fails to open its file leaves paths and docs as they were.
C21_PathsMatchDocs ==
    \A slot \in Slots :
        /\ paths[slot] = PathOf(docs[slot])
        /\ paths[slot] = "" <=> docs[slot] = None

====
